---- MODULE Spec2Model ----
(***************************************************************************)
(* Durak card game server: the match state machine (GameSession), the     *)
(* card rules (CardLogic) and the room registry (GameManager).            *)
(*                                                                         *)
(* A card is the pair <<rank, suit>> of the string "<rank><suit>" of the   *)
(* source; parseCard takes it apart.  A session is a record with the       *)
(* fields of class GameSession; the registry is the pair of maps           *)
(* sessions (roomId -> session) and playerRooms (playerId -> roomId).      *)
(***************************************************************************)
EXTENDS Integers, Sequences, FiniteSets, TLC

(***************************************************************************)
(* Bounds of the model.  The source plays with 9 ranks (36 cards) and      *)
(* hands of 6; the model plays the same game with the first NumRanks ranks *)
(* and hands of HandSize cards, and runs the shuffle on NumSeeds outcomes  *)
(* of the random source.                                                   *)
(***************************************************************************)
NumRanks == 2
HandSize == 2
NumSeeds == 2

Players == {"p1", "p2"}
RoomIds == {"R1"}

\* null for a player id or a suit, and null for a card
Null == "null"
NoCard == <<>>

(***************************************************************************)
(* shared/types.ts and CardLogic.ts                                        *)
(***************************************************************************)
ranks == <<"6", "7", "8", "9", "10", "J", "Q", "K", "A">>
suits == <<"h", "d", "c", "s">>

RANK_VALUES == [r \in {"6", "7", "8", "9", "10", "J", "Q", "K", "A"} |->
                  CASE r = "6" -> 6 [] r = "7" -> 7 [] r = "8" -> 8
                    [] r = "9" -> 9 [] r = "10" -> 10 [] r = "J" -> 11
                    [] r = "Q" -> 12 [] r = "K" -> 13 [] r = "A" -> 14]

\* SUIT_ORDER of shared/types.ts.
SUIT_ORDER == [x \in {"c", "d", "h", "s"} |->
                 CASE x = "c" -> 1 [] x = "d" -> 2 [] x = "h" -> 3 [] x = "s" -> 4]

\* String.localeCompare on the one-letter suit names: alphabetical order.
localeCompare(a, b) ==
  LET pos == [x \in {"c", "d", "h", "s"} |->
                CASE x = "c" -> 1 [] x = "d" -> 2 [] x = "h" -> 3 [] x = "s" -> 4]
  IN  IF pos[a] < pos[b] THEN -1 ELSE IF pos[a] > pos[b] THEN 1 ELSE 0

\* The ranks the model's deck is built from.
deckRanks == SubSeq(ranks, 1, NumRanks)

\* for suit of suits, for rank of ranks: deck.push(rank + suit)
generateDeck ==
  [i \in 1..(Len(suits) * Len(deckRanks)) |->
     <<deckRanks[((i - 1) % Len(deckRanks)) + 1],
       suits[((i - 1) \div Len(deckRanks)) + 1]>>]

Cards == {generateDeck[i] : i \in 1..Len(generateDeck)}
DeckSize == Len(generateDeck)

parseCard(card) == [rank |-> card[1], suit |-> card[2]]

\* Math.floor(Math.random() * (i + 1)) in the run of the random source
\* numbered seed; i is the 0-based index of the Fisher-Yates loop.
randomIndex(seed, i) == (seed * (2 * i + 3) + (i * i) \div 3) % (i + 1)

Swap(seq, a, b) == [seq EXCEPT ![a] = seq[b], ![b] = seq[a]]

\* Fisher-Yates: for i = n-1 down to 1, swap shuffled[i] and shuffled[j].
\* Indices of the source are 0-based, those of the sequence 1-based.
RECURSIVE shuffleFrom(_, _, _)
shuffleFrom(shuffled, i, seed) ==
  IF i <= 0 THEN shuffled
  ELSE shuffleFrom(Swap(shuffled, i + 1, randomIndex(seed, i) + 1), i - 1, seed)

shuffleDeck(deck, seed) == shuffleFrom(deck, Len(deck) - 1, seed)

\* Mutant: an equal rank beats (>= for >).
canBeat_equalBeats(attackCard, defenseCard, trumpSuit) ==
  LET attack == parseCard(attackCard)
      defense == parseCard(defenseCard)
      attackValue == RANK_VALUES[attack.rank]
      defenseValue == RANK_VALUES[defense.rank]
      attackIsTrump == attack.suit = trumpSuit
      defenseIsTrump == defense.suit = trumpSuit
  IN  IF attack.suit = defense.suit /\ ~attackIsTrump THEN defenseValue >= attackValue
      ELSE IF attackIsTrump /\ defenseIsTrump THEN defenseValue >= attackValue
      ELSE IF ~attackIsTrump /\ defenseIsTrump THEN TRUE
      ELSE FALSE

\* Mutant: a trump beats a trump whatever the ranks.
canBeat_anyTrump(attackCard, defenseCard, trumpSuit) ==
  LET attack == parseCard(attackCard)
      defense == parseCard(defenseCard)
      attackValue == RANK_VALUES[attack.rank]
      defenseValue == RANK_VALUES[defense.rank]
      attackIsTrump == attack.suit = trumpSuit
      defenseIsTrump == defense.suit = trumpSuit
  IN  IF attack.suit = defense.suit /\ ~attackIsTrump THEN defenseValue > attackValue
      ELSE IF attackIsTrump /\ defenseIsTrump THEN TRUE
      ELSE IF ~attackIsTrump /\ defenseIsTrump THEN TRUE
      ELSE FALSE

canBeat(attackCard, defenseCard, trumpSuit) ==
  LET attack == parseCard(attackCard)
      defense == parseCard(defenseCard)
      attackValue == RANK_VALUES[attack.rank]
      defenseValue == RANK_VALUES[defense.rank]
      attackIsTrump == attack.suit = trumpSuit
      defenseIsTrump == defense.suit = trumpSuit
  IN  IF attack.suit = defense.suit /\ ~attackIsTrump THEN defenseValue > attackValue
      ELSE IF attackIsTrump /\ defenseIsTrump THEN defenseValue > attackValue
      ELSE IF ~attackIsTrump /\ defenseIsTrump THEN TRUE
      ELSE FALSE

\* Mutant: any card may be thrown in on a table that is not empty.
canThrowIn_anyRank(card, tableCards) == Len(tableCards) # 0

canThrowIn(card, tableCards) ==
  IF Len(tableCards) = 0 THEN FALSE
  ELSE LET throwRank == parseCard(card).rank
       IN  \E i \in 1..Len(tableCards) : parseCard(tableCards[i]).rank = throwRank

\* Mutant: trumps go first.
sortCompare_trumpFirst(a, b, trumpSuit) ==
  LET cardA == parseCard(a)
      cardB == parseCard(b)
      aIsTrump == trumpSuit # Null /\ cardA.suit = trumpSuit
      bIsTrump == trumpSuit # Null /\ cardB.suit = trumpSuit
  IN  IF aIsTrump /\ ~bIsTrump THEN -1
      ELSE IF ~aIsTrump /\ bIsTrump THEN 1
      ELSE IF cardA.suit # cardB.suit THEN localeCompare(cardA.suit, cardB.suit)
      ELSE RANK_VALUES[cardA.rank] - RANK_VALUES[cardB.rank]

\* The comparator of sortHand: negative when a goes before b.
sortCompare(a, b, trumpSuit) ==
  LET cardA == parseCard(a)
      cardB == parseCard(b)
      aIsTrump == trumpSuit # Null /\ cardA.suit = trumpSuit
      bIsTrump == trumpSuit # Null /\ cardB.suit = trumpSuit
  IN  IF aIsTrump /\ ~bIsTrump THEN 1
      ELSE IF ~aIsTrump /\ bIsTrump THEN -1
      ELSE IF cardA.suit # cardB.suit THEN localeCompare(cardA.suit, cardB.suit)
      ELSE RANK_VALUES[cardA.rank] - RANK_VALUES[cardB.rank]

\* Stable insertion of card x into the sorted sequence s (after its equals).
RECURSIVE sortInsert(_, _, _)
sortInsert(s, x, trumpSuit) ==
  IF s = <<>> THEN <<x>>
  ELSE IF sortCompare(x, Head(s), trumpSuit) < 0 THEN <<x>> \o s
  ELSE <<Head(s)>> \o sortInsert(Tail(s), x, trumpSuit)

\* [...hand].sort(comparator): Array.prototype.sort is stable.
RECURSIVE sortHand(_, _)
sortHand(hand, trumpSuit) ==
  IF hand = <<>> THEN <<>>
  ELSE sortInsert(sortHand(SubSeq(hand, 1, Len(hand) - 1), trumpSuit),
                  hand[Len(hand)], trumpSuit)

(***************************************************************************)
(* Array helpers                                                           *)
(***************************************************************************)
includes(seq, x) == \E i \in 1..Len(seq) : seq[i] = x

\* Array.prototype.indexOf, 1-based; 0 when absent.
indexOf(seq, x) ==
  IF includes(seq, x) THEN CHOOSE i \in 1..Len(seq) :
                              seq[i] = x /\ \A j \in 1..(i - 1) : seq[j] # x
  ELSE 0

\* splice(index, 1)
spliceOne(seq, i) == SubSeq(seq, 1, i - 1) \o SubSeq(seq, i + 1, Len(seq))

\* seq.filter(q => q !== x)
RECURSIVE without(_, _)
without(seq, x) ==
  IF seq = <<>> THEN <<>>
  ELSE (IF Head(seq) # x THEN <<Head(seq)>> ELSE <<>>) \o without(Tail(seq), x)

\* table.flatMap(p => [p.attack, p.defense].filter(Boolean))
RECURSIVE tableCardsOf(_)
tableCardsOf(table) ==
  IF table = <<>> THEN <<>>
  ELSE <<Head(table).attack>>
         \o (IF Head(table).defense # NoCard THEN <<Head(table).defense>> ELSE <<>>)
         \o tableCardsOf(Tail(table))

\* table.every(p => p.defense !== null)
allDefended(table) == \A i \in 1..Len(table) : table[i].defense # NoCard

\* table.filter(p => p.defense === null).length
undefendedCount(table) == Cardinality({i \in 1..Len(table) : table[i].defense = NoCard})

(***************************************************************************)
(* GameSession                                                             *)
(***************************************************************************)
\* The lastAction string: its fixed wording and the player id and card that
\* the template interpolates (null when the wording has none).
said(text, playerId, card) == [text |-> text, player |-> playerId, card |-> card]

\* new GameSession(roomId)
newSession(roomId) ==
  [roomId |-> roomId, players |-> <<>>, hands |-> <<>>, deck |-> <<>>,
   trumpCard |-> NoCard, trumpSuit |-> Null, table |-> <<>>,
   attacker |-> Null, defender |-> Null, phase |-> "waiting",
   winner |-> Null, canThrow |-> FALSE, lastAction |-> said("", Null, NoCard)]

\* hands[playerId] = value, adding the key when it is new
setHand(hands, p, value) ==
  [q \in (DOMAIN hands) \cup {p} |-> IF q = p THEN value ELSE hands[q]]

\* delete hands[playerId]
deleteHand(hands, p) == [q \in (DOMAIN hands) \ {p} |-> hands[q]]

\* players.find(p => p !== playerId) || null
otherPlayer(players, playerId) ==
  LET rest == without(players, playerId)
  IN  IF rest = <<>> THEN Null ELSE Head(rest)

\* Mutant: the difference is taken the other way round.
compareCards_reversed(a, b) ==
  RANK_VALUES[parseCard(b).rank] - RANK_VALUES[parseCard(a).rank]

compareCards(a, b) == RANK_VALUES[parseCard(a).rank] - RANK_VALUES[parseCard(b).rank]

\* The deal of startGame: step n of the 6 x players double loop; each step
\* pops the last card of the deck into the hand of the player whose turn it is.
RECURSIVE dealFrom(_, _)
dealFrom(s, n) ==
  IF n >= HandSize * Len(s.players) THEN s
  ELSE LET playerId == s.players[(n % Len(s.players)) + 1]
       IN  IF s.deck = <<>> THEN dealFrom(s, n + 1)
           ELSE dealFrom([s EXCEPT !.deck = SubSeq(s.deck, 1, Len(s.deck) - 1),
                                   !.hands[playerId] = Append(s.hands[playerId],
                                                              s.deck[Len(s.deck)])],
                         n + 1)

\* The scan of determineFirstAttacker over entries <<playerId, card>> in the
\* order players, then hand; acc is [lowestTrump, firstAttacker].
RECURSIVE scanLowestTrump(_, _, _)
scanLowestTrump(entries, trumpSuit, acc) ==
  IF entries = <<>> THEN acc
  ELSE LET playerId == Head(entries)[1]
           card == Head(entries)[2]
       IN  IF parseCard(card).suit = trumpSuit
              /\ (acc.lowestTrump = NoCard \/ compareCards(card, acc.lowestTrump) < 0)
           THEN scanLowestTrump(Tail(entries), trumpSuit,
                                [lowestTrump |-> card, firstAttacker |-> playerId])
           ELSE scanLowestTrump(Tail(entries), trumpSuit, acc)

RECURSIVE handEntries(_, _)
handEntries(players, hands) ==
  IF players = <<>> THEN <<>>
  ELSE [i \in 1..Len(hands[Head(players)]) |-> <<Head(players), hands[Head(players)][i]>>]
         \o handEntries(Tail(players), hands)

\* coin is Math.floor(Math.random() * 2)
determineFirstAttacker(s, coin) ==
  LET found == scanLowestTrump(handEntries(s.players, s.hands), s.trumpSuit,
                               [lowestTrump |-> NoCard, firstAttacker |-> Null])
  IN  [s EXCEPT !.attacker = IF found.firstAttacker # Null THEN found.firstAttacker
                             ELSE s.players[coin + 1]]

sortAllHands(s, who) ==
  [s EXCEPT !.hands = [q \in DOMAIN s.hands |->
                         IF q \in who THEN sortHand(s.hands[q], s.trumpSuit)
                         ELSE s.hands[q]]]

\* Mutant: the trump indicator is read from the deck but left in it.
startGame_peeksTrump(s, seed, coin) ==
  LET s1 == dealFrom([s EXCEPT !.deck = shuffleDeck(generateDeck, seed)], 0)
      s2 == IF s1.deck = <<>> THEN [s1 EXCEPT !.trumpCard = NoCard]
            ELSE [s1 EXCEPT !.trumpCard = Head(s1.deck)]
      s3 == IF s2.trumpCard # NoCard
            THEN [s2 EXCEPT !.trumpSuit = parseCard(s2.trumpCard).suit] ELSE s2
      s4 == determineFirstAttacker(s3, coin)
      s5 == [s4 EXCEPT !.defender = otherPlayer(s4.players, s4.attacker)]
      s6 == sortAllHands(s5, {s5.players[i] : i \in 1..Len(s5.players)})
  IN  [s6 EXCEPT !.phase = "playing", !.lastAction = said("game started", Null, NoCard)]

startGame(s, seed, coin) ==
  LET s1 == dealFrom([s EXCEPT !.deck = shuffleDeck(generateDeck, seed)], 0)
      \* deck.shift() || null
      s2 == IF s1.deck = <<>> THEN [s1 EXCEPT !.trumpCard = NoCard]
            ELSE [s1 EXCEPT !.trumpCard = Head(s1.deck), !.deck = Tail(s1.deck)]
      s3 == IF s2.trumpCard # NoCard
            THEN [s2 EXCEPT !.trumpSuit = parseCard(s2.trumpCard).suit] ELSE s2
      s4 == determineFirstAttacker(s3, coin)
      s5 == [s4 EXCEPT !.defender = otherPlayer(s4.players, s4.attacker)]
      s6 == sortAllHands(s5, {s5.players[i] : i \in 1..Len(s5.players)})
  IN  [s6 EXCEPT !.phase = "playing", !.lastAction = said("game started", Null, NoCard)]

addPlayer(s, playerId, seed, coin) ==
  IF Len(s.players) >= 2 THEN [ok |-> FALSE, s |-> s]
  ELSE IF includes(s.players, playerId) THEN [ok |-> FALSE, s |-> s]
  ELSE LET s1 == [s EXCEPT !.players = Append(s.players, playerId),
                           !.hands = setHand(s.hands, playerId, <<>>)]
       IN  [ok |-> TRUE,
            s |-> IF Len(s1.players) = 2 THEN startGame(s1, seed, coin) ELSE s1]

\* Mutant: the number of players is tested before the player is removed.
removePlayer_countsFirst(s, playerId) ==
  LET s1 == [s EXCEPT !.players = without(s.players, playerId),
                      !.hands = deleteHand(s.hands, playerId)]
  IN  IF s.phase = "playing" /\ Len(s.players) = 1
      THEN [s1 EXCEPT !.winner = s1.players[1], !.phase = "finished",
                      !.lastAction = said("opponent left", Null, NoCard)]
      ELSE s1

\* Mutant: the remaining player is declared winner in any phase but waiting.
removePlayer_anyPhase(s, playerId) ==
  LET s1 == [s EXCEPT !.players = without(s.players, playerId),
                      !.hands = deleteHand(s.hands, playerId)]
  IN  IF s1.phase # "waiting" /\ Len(s1.players) = 1
      THEN [s1 EXCEPT !.winner = s1.players[1], !.phase = "finished",
                      !.lastAction = said("opponent left", Null, NoCard)]
      ELSE s1

\* Mutant: the match is ended without a winner.
removePlayer_noWinner(s, playerId) ==
  LET s1 == [s EXCEPT !.players = without(s.players, playerId),
                      !.hands = deleteHand(s.hands, playerId)]
  IN  IF s1.phase = "playing" /\ Len(s1.players) = 1
      THEN [s1 EXCEPT !.phase = "finished",
                      !.lastAction = said("opponent left", Null, NoCard)]
      ELSE s1

removePlayer(s, playerId) ==
  LET s1 == [s EXCEPT !.players = without(s.players, playerId),
                      !.hands = deleteHand(s.hands, playerId)]
  IN  IF s1.phase = "playing" /\ Len(s1.players) = 1
      THEN [s1 EXCEPT !.winner = s1.players[1], !.phase = "finished",
                      !.lastAction = said("opponent left", Null, NoCard)]
      ELSE s1

\* Mutant: the played card stays in the hand.
removeCardFromHand_keeps(s, playerId, card) == s

removeCardFromHand(s, playerId, card) ==
  LET index == indexOf(s.hands[playerId], card)
  IN  IF index > 0 THEN [s EXCEPT !.hands[playerId] = spliceOne(s.hands[playerId], index)]
      ELSE s

\* The while loop of refillHands for one player.
RECURSIVE drawUp(_, _)
drawUp(s, playerId) ==
  IF Len(s.hands[playerId]) < HandSize /\ Len(s.deck) > 0
  THEN drawUp([s EXCEPT !.deck = SubSeq(s.deck, 1, Len(s.deck) - 1),
                        !.hands[playerId] = Append(s.hands[playerId],
                                                   s.deck[Len(s.deck)])],
              playerId)
  ELSE s

RECURSIVE refillEach(_, _)
refillEach(s, order) ==
  IF order = <<>> THEN s
  ELSE refillEach(sortAllHands(drawUp(s, Head(order)), {Head(order)}), Tail(order))

\* Mutant: the trump indicator is kept when the deck is empty.
refillHands_keepsTrump(s) ==
  refillEach(s, without(<<s.attacker, s.defender>>, Null))

\* Mutant: only the attacker draws.
refillHands_attackerOnly(s) ==
  LET refillOrder == without(<<s.attacker>>, Null)
      s1 == refillEach(s, refillOrder)
  IN  IF Len(s1.deck) = 0 /\ s1.trumpCard # NoCard THEN [s1 EXCEPT !.trumpCard = NoCard]
      ELSE s1

\* Mutant: the defender draws before the attacker.
refillHands_defenderFirst(s) ==
  LET refillOrder == without(<<s.defender, s.attacker>>, Null)
      s1 == refillEach(s, refillOrder)
  IN  IF Len(s1.deck) = 0 /\ s1.trumpCard # NoCard THEN [s1 EXCEPT !.trumpCard = NoCard]
      ELSE s1

refillHands(s) ==
  LET refillOrder == without(<<s.attacker, s.defender>>, Null)
      s1 == refillEach(s, refillOrder)
  IN  IF Len(s1.deck) = 0 /\ s1.trumpCard # NoCard THEN [s1 EXCEPT !.trumpCard = NoCard]
      ELSE s1

\* The loop of checkWinner over this.players.
RECURSIVE checkEach(_, _)
checkEach(s, todo) ==
  IF todo = <<>> THEN s
  ELSE LET playerId == Head(todo)
           opponent == otherPlayer(s.players, playerId)
       IN  IF Len(s.hands[playerId]) = 0
              /\ opponent # Null /\ Len(s.hands[opponent]) > 0
           THEN checkEach([s EXCEPT !.winner = playerId, !.phase = "finished",
                                    !.lastAction = said("won", playerId, NoCard)],
                          Tail(todo))
           ELSE checkEach(s, Tail(todo))

\* Mutant: the negation of the trump indicator test is lost.
checkWinner_wantsTrump(s) ==
  IF Len(s.deck) = 0 /\ s.trumpCard # NoCard THEN checkEach(s, s.players) ELSE s

checkWinner(s) ==
  IF Len(s.deck) = 0 /\ s.trumpCard = NoCard THEN checkEach(s, s.players) ELSE s

\* Each move returns [ok, threw, s]: the boolean it returns, whether the call
\* ended in a TypeError instead of returning, and the session afterwards.
rejected(s) == [ok |-> FALSE, threw |-> FALSE, s |-> s]
accepted(s) == [ok |-> TRUE, threw |-> FALSE, s |-> s]
thrown(s) == [ok |-> FALSE, threw |-> TRUE, s |-> s]

\* Mutant: the card leaves the hand before the table is looked at.
attack_removesFirst(s, playerId, card) ==
  IF s.phase # "playing" THEN rejected(s)
  ELSE IF playerId # s.attacker THEN rejected(s)
  ELSE IF ~includes(s.hands[playerId], card) THEN rejected(s)
  ELSE IF Len(s.table) = 0
  THEN accepted([removeCardFromHand(s, playerId, card) EXCEPT
                   !.table = Append(s.table, [attack |-> card, defense |-> NoCard]),
                   !.canThrow = FALSE,
                   !.lastAction = said("attacks", playerId, card)])
  ELSE rejected(removeCardFromHand(s, playerId, card))

\* Mutant: the table is not required to be empty.
attack_onAnyTable(s, playerId, card) ==
  IF s.phase # "playing" THEN rejected(s)
  ELSE IF playerId # s.attacker THEN rejected(s)
  ELSE IF ~includes(s.hands[playerId], card) THEN rejected(s)
  ELSE accepted([removeCardFromHand(s, playerId, card) EXCEPT
                   !.table = Append(s.table, [attack |-> card, defense |-> NoCard]),
                   !.canThrow = FALSE,
                   !.lastAction = said("attacks", playerId, card)])

\* Mutant: the win check runs after the card is played.
attack_checksWinner(s, playerId, card) ==
  IF s.phase # "playing" THEN rejected(s)
  ELSE IF playerId # s.attacker THEN rejected(s)
  ELSE IF ~includes(s.hands[playerId], card) THEN rejected(s)
  ELSE IF Len(s.table) = 0
  THEN accepted(checkWinner([removeCardFromHand(s, playerId, card) EXCEPT
                   !.table = Append(s.table, [attack |-> card, defense |-> NoCard]),
                   !.canThrow = FALSE,
                   !.lastAction = said("attacks", playerId, card)]))
  ELSE rejected(s)

attack(s, playerId, card) ==
  IF s.phase # "playing" THEN rejected(s)
  ELSE IF playerId # s.attacker THEN rejected(s)
  ELSE IF ~includes(s.hands[playerId], card) THEN rejected(s)
  ELSE IF Len(s.table) = 0
  THEN accepted([removeCardFromHand(s, playerId, card) EXCEPT
                   !.table = Append(s.table, [attack |-> card, defense |-> NoCard]),
                   !.canThrow = FALSE,
                   !.lastAction = said("attacks", playerId, card)])
  ELSE rejected(s)

\* Mutant: any card of the defender's hand beats.
defend_anyCard(s, playerId, attackCard, defenseCard) ==
  IF s.phase # "playing" THEN rejected(s)
  ELSE IF playerId # s.defender THEN rejected(s)
  ELSE IF ~includes(s.hands[playerId], defenseCard) THEN rejected(s)
  ELSE IF s.trumpSuit = Null THEN rejected(s)
  ELSE LET found == {i \in 1..Len(s.table) :
                       s.table[i].attack = attackCard /\ s.table[i].defense = NoCard}
       IN  IF found = {} THEN rejected(s)
           ELSE LET pair == CHOOSE i \in found : \A j \in found : i <= j
                    s1 == removeCardFromHand(s, playerId, defenseCard)
                    s2 == [s1 EXCEPT !.table[pair].defense = defenseCard]
                IN  accepted([s2 EXCEPT
                                !.canThrow = allDefended(s2.table),
                                !.lastAction = said("defends", playerId, defenseCard)])

defend(s, playerId, attackCard, defenseCard) ==
  IF s.phase # "playing" THEN rejected(s)
  ELSE IF playerId # s.defender THEN rejected(s)
  ELSE IF ~includes(s.hands[playerId], defenseCard) THEN rejected(s)
  ELSE IF s.trumpSuit = Null THEN rejected(s)
  ELSE LET found == {i \in 1..Len(s.table) :
                       s.table[i].attack = attackCard /\ s.table[i].defense = NoCard}
       IN  IF found = {} THEN rejected(s)
           ELSE IF ~canBeat(attackCard, defenseCard, s.trumpSuit) THEN rejected(s)
           ELSE LET pair == CHOOSE i \in found : \A j \in found : i <= j
                    s1 == removeCardFromHand(s, playerId, defenseCard)
                    s2 == [s1 EXCEPT !.table[pair].defense = defenseCard]
                IN  accepted([s2 EXCEPT
                                !.canThrow = allDefended(s2.table),
                                !.lastAction = said("defends", playerId, defenseCard)])

\* Mutant: the capacity test is strict (< for <=).
throwIn_strictCapacity(s, playerId, card) ==
  IF s.phase # "playing" THEN rejected(s)
  ELSE IF ~s.canThrow THEN rejected(s)
  ELSE IF playerId \notin DOMAIN s.hands THEN thrown(s)
  ELSE IF ~includes(s.hands[playerId], card) THEN rejected(s)
  ELSE IF ~canThrowIn(card, tableCardsOf(s.table)) THEN rejected(s)
  ELSE LET defenderHandSize == IF s.defender # Null THEN Len(s.hands[s.defender]) ELSE 0
       IN  IF defenderHandSize < undefendedCount(s.table) THEN rejected(s)
           ELSE accepted([removeCardFromHand(s, playerId, card) EXCEPT
                            !.table = Append(s.table, [attack |-> card, defense |-> NoCard]),
                            !.canThrow = FALSE,
                            !.lastAction = said("throws in", playerId, card)])

\* Mutant: the throw-in flag is not required.
throwIn_noFlag(s, playerId, card) ==
  IF s.phase # "playing" THEN rejected(s)
  ELSE IF playerId \notin DOMAIN s.hands THEN thrown(s)
  ELSE IF ~includes(s.hands[playerId], card) THEN rejected(s)
  ELSE IF ~canThrowIn(card, tableCardsOf(s.table)) THEN rejected(s)
  ELSE LET defenderHandSize == IF s.defender # Null THEN Len(s.hands[s.defender]) ELSE 0
       IN  IF defenderHandSize <= undefendedCount(s.table) THEN rejected(s)
           ELSE accepted([removeCardFromHand(s, playerId, card) EXCEPT
                            !.table = Append(s.table, [attack |-> card, defense |-> NoCard]),
                            !.canThrow = FALSE,
                            !.lastAction = said("throws in", playerId, card)])

\* this.hands[playerId].includes(card) is a TypeError when the session has
\* no hand for playerId: throwIn does not compare playerId with the roles.
throwIn(s, playerId, card) ==
  IF s.phase # "playing" THEN rejected(s)
  ELSE IF ~s.canThrow THEN rejected(s)
  ELSE IF playerId \notin DOMAIN s.hands THEN thrown(s)
  ELSE IF ~includes(s.hands[playerId], card) THEN rejected(s)
  ELSE IF ~canThrowIn(card, tableCardsOf(s.table)) THEN rejected(s)
  ELSE LET defenderHandSize == IF s.defender # Null THEN Len(s.hands[s.defender]) ELSE 0
       IN  IF defenderHandSize <= undefendedCount(s.table) THEN rejected(s)
           ELSE accepted([removeCardFromHand(s, playerId, card) EXCEPT
                            !.table = Append(s.table, [attack |-> card, defense |-> NoCard]),
                            !.canThrow = FALSE,
                            !.lastAction = said("throws in", playerId, card)])

\* Mutant: the throw-in flag is left as it is.
passTurn_keepsFlag(s, playerId) ==
  IF s.phase # "playing" THEN rejected(s)
  ELSE IF playerId # s.attacker THEN rejected(s)
  ELSE IF ~allDefended(s.table) THEN rejected(s)
  ELSE LET s1 == refillHands([s EXCEPT !.table = <<>>])
           s2 == [s1 EXCEPT !.attacker = s1.defender, !.defender = s1.attacker,
                            !.lastAction = said("round over", Null, NoCard)]
       IN  accepted(checkWinner(s2))

\* Mutant: the roles are not exchanged.
passTurn_noSwap(s, playerId) ==
  IF s.phase # "playing" THEN rejected(s)
  ELSE IF playerId # s.attacker THEN rejected(s)
  ELSE IF ~allDefended(s.table) THEN rejected(s)
  ELSE LET s1 == refillHands([s EXCEPT !.table = <<>>, !.canThrow = FALSE])
           s2 == [s1 EXCEPT !.lastAction = said("round over", Null, NoCard)]
       IN  accepted(checkWinner(s2))

\* Mutant: a round without a card cannot be passed.
passTurn_needsCards(s, playerId) ==
  IF s.phase # "playing" THEN rejected(s)
  ELSE IF playerId # s.attacker THEN rejected(s)
  ELSE IF Len(s.table) = 0 \/ ~allDefended(s.table) THEN rejected(s)
  ELSE LET s1 == refillHands([s EXCEPT !.table = <<>>, !.canThrow = FALSE])
           s2 == [s1 EXCEPT !.attacker = s1.defender, !.defender = s1.attacker,
                            !.lastAction = said("round over", Null, NoCard)]
       IN  accepted(checkWinner(s2))

\* Mutant: the defender becomes attacker and stays defender.
passTurn_halfSwap(s, playerId) ==
  IF s.phase # "playing" THEN rejected(s)
  ELSE IF playerId # s.attacker THEN rejected(s)
  ELSE IF ~allDefended(s.table) THEN rejected(s)
  ELSE LET s1 == refillHands([s EXCEPT !.table = <<>>, !.canThrow = FALSE])
           s2 == [s1 EXCEPT !.attacker = s1.defender,
                            !.lastAction = said("round over", Null, NoCard)]
       IN  accepted(checkWinner(s2))

passTurn(s, playerId) ==
  IF s.phase # "playing" THEN rejected(s)
  ELSE IF playerId # s.attacker THEN rejected(s)
  ELSE IF ~allDefended(s.table) THEN rejected(s)
  ELSE LET s1 == refillHands([s EXCEPT !.table = <<>>, !.canThrow = FALSE])
           s2 == [s1 EXCEPT !.attacker = s1.defender, !.defender = s1.attacker,
                            !.lastAction = said("round over", Null, NoCard)]
       IN  accepted(checkWinner(s2))

\* The attack side of the table only.
RECURSIVE attackCardsOf(_)
attackCardsOf(table) ==
  IF table = <<>> THEN <<>> ELSE <<Head(table).attack>> \o attackCardsOf(Tail(table))

\* Mutant: the defender takes the attack cards and leaves the defence cards.
takeCards_attackOnly(s, playerId) ==
  IF s.phase # "playing" THEN rejected(s)
  ELSE IF playerId # s.defender THEN rejected(s)
  ELSE IF Len(s.table) = 0 THEN rejected(s)
  ELSE LET cardsToTake == attackCardsOf(s.table)
           s1 == IF s.defender # Null
                 THEN [s EXCEPT !.hands[s.defender] =
                                  sortHand(s.hands[s.defender] \o cardsToTake, s.trumpSuit)]
                 ELSE s
           s2 == refillHands([s1 EXCEPT !.table = <<>>, !.canThrow = FALSE])
           s3 == [s2 EXCEPT !.lastAction = said("took the cards", playerId, NoCard)]
       IN  accepted(checkWinner(s3))

takeCards(s, playerId) ==
  IF s.phase # "playing" THEN rejected(s)
  ELSE IF playerId # s.defender THEN rejected(s)
  ELSE IF Len(s.table) = 0 THEN rejected(s)
  ELSE LET cardsToTake == tableCardsOf(s.table)
           s1 == IF s.defender # Null
                 THEN [s EXCEPT !.hands[s.defender] =
                                  sortHand(s.hands[s.defender] \o cardsToTake, s.trumpSuit)]
                 ELSE s
           s2 == refillHands([s1 EXCEPT !.table = <<>>, !.canThrow = FALSE])
           s3 == [s2 EXCEPT !.lastAction = said("took the cards", playerId, NoCard)]
       IN  accepted(checkWinner(s3))

\* The placeholder 'back' as a card: parseCard takes its last letter for the
\* suit and the letters before it for the rank.
back == <<"bac", "k">>

getState(s) ==
  [roomId |-> s.roomId, players |-> s.players, phase |-> s.phase,
   hands |-> s.hands, table |-> s.table, deck |-> s.deck,
   trumpCard |-> s.trumpCard, trumpSuit |-> s.trumpSuit,
   attacker |-> s.attacker, defender |-> s.defender, winner |-> s.winner,
   canThrow |-> s.canThrow, lastAction |-> s.lastAction]

\* Mutant: the hands are returned as they are.
getStateForPlayer_showsAll(s, playerId) == getState(s)

\* hiddenHands has a key for each of this.players: the hand itself for
\* playerId, new Array(length).fill('back') for anyone else.
getStateForPlayer(s, playerId) ==
  LET state == getState(s)
      hiddenHands ==
        [pid \in {s.players[i] : i \in 1..Len(s.players)} |->
           IF pid = playerId THEN state.hands[pid]
           ELSE [i \in 1..Len(state.hands[pid]) |-> back]]
  IN  [state EXCEPT !.hands = hiddenHands]

(***************************************************************************)
(* GameManager                                                             *)
(***************************************************************************)
\* Map.set / Map.delete on a map held as a function on its keys
mapSet(m, k, v) == [x \in (DOMAIN m) \cup {k} |-> IF x = k THEN v ELSE m[x]]
mapDelete(m, k) == [x \in (DOMAIN m) \ {k} |-> m[x]]
mapDeleteAll(m, ks) == [x \in (DOMAIN m) \ ks |-> m[x]]

\* A registry is [sessions, playerRooms].  roomId is the id generateRoomId
\* returns; seed and coin are unused by the first addPlayer of a session.
\* Mutant: a player already in a room may create another.
createRoom_unchecked(reg, playerId, roomId) ==
  LET session == addPlayer(newSession(roomId), playerId, 0, 0).s
  IN  [ok |-> TRUE,
       reg |-> [sessions |-> mapSet(reg.sessions, roomId, session),
                playerRooms |-> mapSet(reg.playerRooms, playerId, roomId)]]

createRoom(reg, playerId, roomId) ==
  IF playerId \in DOMAIN reg.playerRooms THEN [ok |-> FALSE, reg |-> reg]
  ELSE LET session == addPlayer(newSession(roomId), playerId, 0, 0).s
       IN  [ok |-> TRUE,
            reg |-> [sessions |-> mapSet(reg.sessions, roomId, session),
                     playerRooms |-> mapSet(reg.playerRooms, playerId, roomId)]]

\* Mutant: the phase of the room is not looked at.
joinRoom_anyPhase(reg, playerId, roomId, seed, coin) ==
  IF playerId \in DOMAIN reg.playerRooms THEN [ok |-> FALSE, reg |-> reg]
  ELSE IF roomId \notin DOMAIN reg.sessions THEN [ok |-> FALSE, reg |-> reg]
  ELSE IF Len(reg.sessions[roomId].players) >= 2 THEN [ok |-> FALSE, reg |-> reg]
  ELSE [ok |-> TRUE,
        reg |-> [sessions |-> [reg.sessions EXCEPT ![roomId] =
                                 addPlayer(reg.sessions[roomId], playerId, seed, coin).s],
                 playerRooms |-> mapSet(reg.playerRooms, playerId, roomId)]]

joinRoom(reg, playerId, roomId, seed, coin) ==
  IF playerId \in DOMAIN reg.playerRooms THEN [ok |-> FALSE, reg |-> reg]
  ELSE IF roomId \notin DOMAIN reg.sessions THEN [ok |-> FALSE, reg |-> reg]
  ELSE IF Len(reg.sessions[roomId].players) >= 2 THEN [ok |-> FALSE, reg |-> reg]
  ELSE IF reg.sessions[roomId].phase # "waiting" THEN [ok |-> FALSE, reg |-> reg]
  ELSE [ok |-> TRUE,
        reg |-> [sessions |-> [reg.sessions EXCEPT ![roomId] =
                                 addPlayer(reg.sessions[roomId], playerId, seed, coin).s],
                 playerRooms |-> mapSet(reg.playerRooms, playerId, roomId)]]

\* Mutant: a room left by its last player is kept.
leaveRoom_keepsEmpty(reg, playerId) ==
  IF playerId \notin DOMAIN reg.playerRooms THEN [ok |-> FALSE, reg |-> reg]
  ELSE LET roomId == reg.playerRooms[playerId]
       IN  IF roomId \notin DOMAIN reg.sessions THEN [ok |-> FALSE, reg |-> reg]
           ELSE LET session == removePlayer(reg.sessions[roomId], playerId)
                IN  [ok |-> TRUE,
                     reg |-> [sessions |-> [reg.sessions EXCEPT ![roomId] = session],
                              playerRooms |-> mapDelete(reg.playerRooms, playerId)]]

\* Mutant: the playerRooms entry of the player who leaves is kept.
leaveRoom_keepsEntry(reg, playerId) ==
  IF playerId \notin DOMAIN reg.playerRooms THEN [ok |-> FALSE, reg |-> reg]
  ELSE LET roomId == reg.playerRooms[playerId]
       IN  IF roomId \notin DOMAIN reg.sessions THEN [ok |-> FALSE, reg |-> reg]
           ELSE LET session == removePlayer(reg.sessions[roomId], playerId)
                    kept == [reg.sessions EXCEPT ![roomId] = session]
                IN  [ok |-> TRUE,
                     reg |-> [sessions |-> IF Len(session.players) = 0
                                           THEN mapDelete(kept, roomId) ELSE kept,
                              playerRooms |-> reg.playerRooms]]

leaveRoom(reg, playerId) ==
  IF playerId \notin DOMAIN reg.playerRooms THEN [ok |-> FALSE, reg |-> reg]
  ELSE LET roomId == reg.playerRooms[playerId]
       IN  IF roomId \notin DOMAIN reg.sessions THEN [ok |-> FALSE, reg |-> reg]
           ELSE LET session == removePlayer(reg.sessions[roomId], playerId)
                    kept == [reg.sessions EXCEPT ![roomId] = session]
                IN  [ok |-> TRUE,
                     reg |-> [sessions |-> IF Len(session.players) = 0
                                           THEN mapDelete(kept, roomId) ELSE kept,
                              playerRooms |-> mapDelete(reg.playerRooms, playerId)]]

cleanupEmptyRooms(reg) ==
  [reg EXCEPT !.sessions =
     mapDeleteAll(reg.sessions,
                  {r \in DOMAIN reg.sessions : Len(reg.sessions[r].players) = 0})]

\* Mutant: the players of a removed session keep their playerRooms entries.
cleanupFinishedGames_keepsEntries(reg) ==
  LET finished == {r \in DOMAIN reg.sessions : reg.sessions[r].phase = "finished"}
  IN  [sessions |-> mapDeleteAll(reg.sessions, finished),
       playerRooms |-> reg.playerRooms]

cleanupFinishedGames(reg) ==
  LET finished == {r \in DOMAIN reg.sessions : reg.sessions[r].phase = "finished"}
      gone == UNION {{reg.sessions[r].players[i] : i \in 1..Len(reg.sessions[r].players)} :
                       r \in finished}
  IN  [sessions |-> mapDeleteAll(reg.sessions, finished),
       playerRooms |-> mapDeleteAll(reg.playerRooms,
                                    {q \in gone : q \in DOMAIN reg.playerRooms})]

\* Mutant: the phase of the room is not looked at.
getOpenRooms_anyPhase(reg) ==
  {[roomId |-> r, playerCount |-> Len(reg.sessions[r].players), maxPlayers |-> 2,
    status |-> "waiting"] :
     r \in {x \in DOMAIN reg.sessions : Len(reg.sessions[x].players) < 2}}

\* The RoomInfo of every open room; createdAt is the time of the call and is
\* left out.
getOpenRooms(reg) ==
  {[roomId |-> r, playerCount |-> Len(reg.sessions[r].players), maxPlayers |-> 2,
    status |-> "waiting"] :
     r \in {x \in DOMAIN reg.sessions :
              reg.sessions[x].phase = "waiting" /\ Len(reg.sessions[x].players) < 2}}

\* getSessionByPlayer: the room id of the player's session, Null when none
getSessionByPlayer(reg, playerId) ==
  IF playerId \notin DOMAIN reg.playerRooms THEN Null
  ELSE IF reg.playerRooms[playerId] \notin DOMAIN reg.sessions THEN Null
  ELSE reg.playerRooms[playerId]

(***************************************************************************)
(* The server: one action per request handler.                             *)
(***************************************************************************)
\* sessions and playerRooms are the maps of GameManager; call is a call of a
\* card rule on its own: the function, its arguments, and what it returned
\* (<<>> while it has not returned).  connections and playerIds are the two
\* maps of websocket.ts, sockets is the state of each WebSocket ("none"
\* before it connects, then "open", then "closed"), and timers counts, for
\* each player, the disconnect timeouts that are set and have not fired.
VARIABLES sessions, playerRooms, call, connections, playerIds, sockets, timers

wsVars == <<connections, playerIds, sockets, timers>>
vars == <<sessions, playerRooms, call, connections, playerIds, sockets, timers>>

WsSockets == {"w1", "w2"}

\* No WebSocket has connected.
noSockets ==
  /\ connections = <<>>
  /\ playerIds = <<>>
  /\ sockets = [w \in WsSockets |-> "none"]
  /\ timers = [p \in Players |-> 0]

noCall == [fn |-> "", args |-> <<>>, returned |-> <<>>]

registry == [sessions |-> sessions, playerRooms |-> playerRooms]

Init ==
  /\ sessions = <<>>
  /\ playerRooms = <<>>
  /\ call = noCall
  /\ noSockets

setRegistry(reg) ==
  /\ sessions' = reg.sessions
  /\ playerRooms' = reg.playerRooms
  /\ UNCHANGED <<call, wsVars>>

\* A move handler looks the session up by player and calls the move on it;
\* the session is left as the move leaves it, whatever the move returns.  A
\* call that leaves the session as it was is a stuttering step.
hasSession(playerId) == getSessionByPlayer(registry, playerId) # Null
sessionOf(playerId) == sessions[getSessionByPlayer(registry, playerId)]

moved(playerId, done) ==
  /\ done.s # sessionOf(playerId)
  /\ sessions' = [sessions EXCEPT ![getSessionByPlayer(registry, playerId)] = done.s]
  /\ UNCHANGED <<playerRooms, call, wsVars>>

\* generateRoomId returns an id that no live session has.
CreateRoom ==
  \E playerId \in Players :
    \E roomId \in RoomIds \ DOMAIN sessions :
      setRegistry(createRoom(registry, playerId, roomId).reg)

JoinRoom ==
  \E playerId \in Players, roomId \in RoomIds, seed \in 0..(NumSeeds - 1), coin \in 0..1 :
    setRegistry(joinRoom(registry, playerId, roomId, seed, coin).reg)

LeaveRoom ==
  \E playerId \in Players :
    setRegistry(leaveRoom(registry, playerId).reg)

Attack ==
  \E playerId \in Players :
    /\ hasSession(playerId)
    /\ \E card \in Cards :
         moved(playerId, attack(sessionOf(playerId), playerId, card))

Defend ==
  \E playerId \in Players :
    /\ hasSession(playerId)
    /\ \E attackCard \in Cards, defenseCard \in Cards :
         moved(playerId, defend(sessionOf(playerId), playerId, attackCard, defenseCard))

ThrowIn ==
  \E playerId \in Players :
    /\ hasSession(playerId)
    /\ \E card \in Cards :
         moved(playerId, throwIn(sessionOf(playerId), playerId, card))

PassTurn ==
  \E playerId \in Players :
    /\ hasSession(playerId)
    /\ moved(playerId, passTurn(sessionOf(playerId), playerId))

TakeCards ==
  \E playerId \in Players :
    /\ hasSession(playerId)
    /\ moved(playerId, takeCards(sessionOf(playerId), playerId))

\* POST /api/admin/cleanup: cleanupEmptyRooms, then cleanupFinishedGames
Cleanup ==
  setRegistry(cleanupFinishedGames(cleanupEmptyRooms(registry)))

Next ==
  \/ CreateRoom
  \/ JoinRoom
  \/ LeaveRoom
  \/ Attack
  \/ Defend
  \/ ThrowIn
  \/ PassTurn
  \/ TakeCards
  \/ Cleanup

Spec == Init /\ [][Next]_vars

(***************************************************************************)
(* The card rules on their own: canBeat on every pair of cards of the      *)
(* 36-card deck and every trump suit.                                      *)
(***************************************************************************)
AllCards == {<<ranks[i], suits[j]>> : i \in 1..Len(ranks), j \in 1..Len(suits)}
Suits == {suits[j] : j \in 1..Len(suits)}

CanBeatInit ==
  /\ sessions = <<>>
  /\ playerRooms = <<>>
  /\ noSockets
  /\ \E attackCard \in AllCards, defenseCard \in AllCards, trumpSuit \in Suits :
       call = [fn |-> "canBeat", args |-> <<attackCard, defenseCard, trumpSuit>>,
               returned |-> <<>>]

CanBeat ==
  /\ call.fn = "canBeat"
  /\ call.returned = <<>>
  /\ call' = [call EXCEPT !.returned = <<canBeat(call.args[1], call.args[2], call.args[3])>>]
  /\ UNCHANGED <<sessions, playerRooms, wsVars>>

CanBeatSpec == CanBeatInit /\ [][CanBeat]_vars

(***************************************************************************)
(* The lobby: the room handlers alone, called by three players on two      *)
(* rooms.  Matches start when their second player joins and are ended by   *)
(* departures; no cards are played.                                        *)
(***************************************************************************)
LobbyPlayers == {"p1", "p2", "p3"}
LobbyRoomIds == {"R1", "R2"}

LobbyCreateRoom ==
  \E playerId \in LobbyPlayers :
    \E roomId \in LobbyRoomIds \ DOMAIN sessions :
      setRegistry(createRoom(registry, playerId, roomId).reg)

LobbyJoinRoom ==
  \E playerId \in LobbyPlayers, roomId \in LobbyRoomIds,
     seed \in 0..(NumSeeds - 1), coin \in 0..1 :
    setRegistry(joinRoom(registry, playerId, roomId, seed, coin).reg)

LobbyLeaveRoom ==
  \E playerId \in LobbyPlayers :
    setRegistry(leaveRoom(registry, playerId).reg)

LobbyNext ==
  \/ LobbyCreateRoom
  \/ LobbyJoinRoom
  \/ LobbyLeaveRoom
  \/ Cleanup

LobbySpec == Init /\ [][LobbyNext]_vars

(***************************************************************************)
(* The deal: a room is created and joined, with the shuffle run on         *)
(* DealSeeds outcomes of the random source.                                *)
(***************************************************************************)
DealSeeds == 840

DealJoinRoom ==
  \E playerId \in Players, roomId \in RoomIds, seed \in 0..(DealSeeds - 1), coin \in 0..1 :
    setRegistry(joinRoom(registry, playerId, roomId, seed, coin).reg)

DealNext ==
  \/ CreateRoom
  \/ DealJoinRoom

DealSpec == Init /\ [][DealNext]_vars

(***************************************************************************)
(* The choice of the first attacker on its own: determineFirstAttacker on  *)
(* every pair of dealt hands over the first AttackerRanks ranks of two     *)
(* suits, one of them trump.  The trump indicator is a card of the trump   *)
(* suit that is in no hand.                                                *)
(***************************************************************************)
AttackerRanks == 3

attackerSuits == {"h", "s"}
attackerCards == {<<ranks[i], suit>> : i \in 1..AttackerRanks, suit \in attackerSuits}

dealtHands ==
  {hands \in [{"p1", "p2"} -> [1..HandSize -> attackerCards]] :
     Cardinality({hands[p][i] : p \in {"p1", "p2"}, i \in 1..HandSize}) = 2 * HandSize}

\* The session as startGame has it when it calls determineFirstAttacker.
dealtSession(hands, trumpSuit) ==
  [newSession("R1") EXCEPT !.players = <<"p1", "p2">>, !.hands = hands,
                           !.trumpSuit = trumpSuit]

FirstAttackerInit ==
  /\ sessions = <<>>
  /\ playerRooms = <<>>
  /\ noSockets
  /\ \E hands \in dealtHands, trumpSuit \in attackerSuits, coin \in 0..1 :
       /\ \E card \in attackerCards :
            /\ parseCard(card).suit = trumpSuit
            /\ \A p \in {"p1", "p2"} : ~includes(hands[p], card)
       /\ call = [fn |-> "determineFirstAttacker", args |-> <<hands, trumpSuit, coin>>,
                  returned |-> <<>>]

\* determineFirstAttacker, then this.defender = the other player
FirstAttacker ==
  /\ call.fn = "determineFirstAttacker"
  /\ call.returned = <<>>
  /\ LET s == determineFirstAttacker(dealtSession(call.args[1], call.args[2]), call.args[3])
     IN  call' = [call EXCEPT !.returned = <<s.attacker, otherPlayer(s.players, s.attacker)>>]
  /\ UNCHANGED <<sessions, playerRooms, wsVars>>

FirstAttackerSpec == FirstAttackerInit /\ [][FirstAttacker]_vars

(***************************************************************************)
(* sortHand on its own: every hand of up to SortLen distinct cards of the  *)
(* four suits, in every order, under every trump suit and under none.      *)
(***************************************************************************)
SortRanks == 3
SortLen == 3

sortCards == {<<ranks[i], suit>> : i \in 1..SortRanks, suit \in Suits}

sortHands ==
  {hand \in UNION {[1..n -> sortCards] : n \in 0..SortLen} :
     \A i, j \in DOMAIN hand : i # j => hand[i] # hand[j]}

SortHandInit ==
  /\ sessions = <<>>
  /\ playerRooms = <<>>
  /\ noSockets
  /\ \E hand \in sortHands, trumpSuit \in Suits \cup {Null} :
       call = [fn |-> "sortHand", args |-> <<hand, trumpSuit>>, returned |-> <<>>]

SortHand ==
  /\ call.fn = "sortHand"
  /\ call.returned = <<>>
  /\ call' = [call EXCEPT !.returned = <<sortHand(call.args[1], call.args[2])>>]
  /\ UNCHANGED <<sessions, playerRooms, wsVars>>

SortHandSpec == SortHandInit /\ [][SortHand]_vars

(***************************************************************************)
(* The WebSocket transport: connections, the room messages, closes and the *)
(* disconnect timeouts of two players on WsSockets sockets, in every       *)
(* order.  A timeout fires 60 s after its close; any number of the other   *)
(* events may happen before it does.                                       *)
(***************************************************************************)
\* wss.on('connection')
WsConnection ==
  \E ws \in WsSockets :
    /\ sockets[ws] = "none"
    /\ sockets' = [sockets EXCEPT ![ws] = "open"]
    /\ UNCHANGED <<sessions, playerRooms, call, connections, playerIds, timers>>

\* handleCreateRoom, handleJoinRoom, handleLeaveRoom.  roomId is the id
\* generateRoomId returns, or the id the join message names; no room is
\* created once every id of RoomIds is in use.
handleRoomMessage(reg, type, playerId, roomId, seed, coin) ==
  CASE type = "create_room" ->
         IF roomId \in DOMAIN reg.sessions THEN reg
         ELSE createRoom(reg, playerId, roomId).reg
    [] type = "join_room" -> joinRoom(reg, playerId, roomId, seed, coin).reg
    [] type = "leave_room" -> leaveRoom(reg, playerId).reg

\* ws.on('message'), handleClientMessage: the socket is registered for the
\* player id the message carries, then the message is handled.
WsMessage ==
  \E ws \in WsSockets, playerId \in Players, roomId \in RoomIds,
     type \in {"create_room", "join_room", "leave_room"},
     seed \in 0..(NumSeeds - 1), coin \in 0..1 :
    /\ sockets[ws] = "open"
    /\ connections' = mapSet(connections, playerId, ws)
    /\ playerIds' = mapSet(playerIds, ws, playerId)
    /\ LET reg == handleRoomMessage(registry, type, playerId, roomId, seed, coin)
       IN  sessions' = reg.sessions /\ playerRooms' = reg.playerRooms
    /\ UNCHANGED <<call, sockets, timers>>

\* ws.on('close'): the player's entry of connections is deleted, whichever
\* socket it holds, and the timeout is set.
WsClose ==
  \E ws \in WsSockets :
    /\ sockets[ws] = "open"
    /\ sockets' = [sockets EXCEPT ![ws] = "closed"]
    /\ IF ws \in DOMAIN playerIds
       THEN /\ connections' = mapDelete(connections, playerIds[ws])
            /\ timers' = [timers EXCEPT ![playerIds[ws]] = @ + 1]
       ELSE UNCHANGED <<connections, timers>>
    /\ UNCHANGED <<sessions, playerRooms, call, playerIds>>

\* The callback of setTimeout in the close handler.
disconnectTimeout(reg, conns, playerId) ==
  IF playerId \notin DOMAIN conns THEN leaveRoom(reg, playerId)
  ELSE [ok |-> FALSE, reg |-> reg]

WsTimeout ==
  \E playerId \in Players :
    /\ timers[playerId] > 0
    /\ timers' = [timers EXCEPT ![playerId] = @ - 1]
    /\ LET reg == disconnectTimeout(registry, connections, playerId).reg
       IN  sessions' = reg.sessions /\ playerRooms' = reg.playerRooms
    /\ UNCHANGED <<call, connections, playerIds, sockets>>

WsNext ==
  \/ WsConnection
  \/ WsMessage
  \/ WsClose
  \/ WsTimeout

WsSpec == Init /\ [][WsNext]_vars

(***************************************************************************)
(* Properties                                                              *)
(***************************************************************************)
live == DOMAIN sessions

RECURSIVE handCards(_, _)
handCards(hands, players) ==
  IF players = <<>> THEN <<>>
  ELSE (IF Head(players) \in DOMAIN hands THEN hands[Head(players)] ELSE <<>>)
         \o handCards(hands, Tail(players))

\* Every card the session holds: deck, trump indicator, hands, table.
cardsInPlay(s) ==
  s.deck \o (IF s.trumpCard # NoCard THEN <<s.trumpCard>> ELSE <<>>)
         \o handCards(s.hands, s.players) \o tableCardsOf(s.table)

noRepeats(seq) == \A i, j \in 1..Len(seq) : i # j => seq[i] # seq[j]

\* C1 as stated: in every playing match the deck, the trump indicator, the
\* two hands and the table together hold exactly the whole deck of cards.
C1_Conservation ==
  \A r \in live :
    sessions[r].phase = "playing" => Len(cardsInPlay(sessions[r])) = DeckSize

\* The trump indicator that a move removes from play (refill on an empty deck).
trumpDropped(s, after) == IF s.trumpCard # NoCard /\ after.trumpCard = NoCard THEN 1 ELSE 0

\* C1 amended: the deal leaves the whole deck in the match, and no move adds
\* a card: attack, defend, throwIn and takeCards keep the number of cards
\* held, a successful passTurn lowers it by the cards it clears from the
\* table, and the refill of a Pass or Take that empties the deck lowers it by
\* the trump indicator it discards.
C1_CardsOnlyLeavePlay ==
  \A r \in live :
    LET s == sessions[r]
        held == Len(cardsInPlay(s))
        heldAfter(done) == IF done.s = s THEN held ELSE Len(cardsInPlay(done.s))
    IN  s.phase = "playing" =>
          /\ held <= DeckSize
          /\ s.lastAction.text = "game started" => held = DeckSize
          /\ \A p \in Players, c \in Cards :
               /\ heldAfter(attack(s, p, c)) = held
               /\ heldAfter(throwIn(s, p, c)) = held
               /\ \A d \in Cards : heldAfter(defend(s, p, c, d)) = held
          /\ \A p \in Players :
               LET took == takeCards(s, p)
                   passed == passTurn(s, p)
               IN  /\ heldAfter(took) = held - trumpDropped(s, took.s)
                   /\ heldAfter(passed) =
                        held - trumpDropped(s, passed.s)
                             - (IF passed.ok THEN Len(tableCardsOf(s.table)) ELSE 0)

\* Witness of C1: a playing match after a Pass that cleared a defended pair.
C1_Witness ==
  \E r \in live :
    /\ sessions[r].phase = "playing"
    /\ sessions[r].lastAction.text = "round over"
    /\ Len(cardsInPlay(sessions[r])) < DeckSize

\* C2: no card occurs twice among deck, trump indicator, hands and table.
C2_NoDuplicates == \A r \in live : noRepeats(cardsInPlay(sessions[r]))

\* Witness of C2: the defender has taken a table that held a defended pair.
C2_Witness ==
  \E r \in live :
    LET s == sessions[r]
    IN  /\ s.phase = "playing"
        /\ s.lastAction.text = "took the cards"
        /\ Len(s.hands[s.defender]) > HandSize + 1

\* C3: a move that returns failure leaves every field of the match as it was.
C3_RejectionChangesNothing ==
  \A r \in live :
    LET s == sessions[r]
        unchangedIfRejected(done) == (~done.ok /\ ~done.threw) => done.s = s
    IN  \A p \in Players :
          /\ unchangedIfRejected(passTurn(s, p))
          /\ unchangedIfRejected(takeCards(s, p))
          /\ \A c \in Cards :
               /\ unchangedIfRejected(attack(s, p, c))
               /\ unchangedIfRejected(throwIn(s, p, c))
               /\ \A d \in Cards : unchangedIfRejected(defend(s, p, c, d))

\* Witness of C3: the attacker, holding a card, is refused a second attack on
\* a table that already holds a pair.
C3_Witness ==
  \E r \in live :
    LET s == sessions[r]
    IN  /\ s.phase = "playing"
        /\ Len(s.table) > 0
        /\ \E c \in Cards :
             /\ includes(s.hands[s.attacker], c)
             /\ ~attack(s, s.attacker, c).ok

emptyHanded(s) == {p \in DOMAIN s.hands : Len(s.hands[p]) = 0}

\* C4: after a successful passTurn or takeCards, if the deck is empty, no
\* trump indicator remains and exactly one of the two hands is empty, the
\* match is finished and the player with the empty hand is the winner.
C4_WinDetected ==
  \A r \in live, p \in Players :
    \A done \in {passTurn(sessions[r], p), takeCards(sessions[r], p)} :
      (/\ done.ok
       /\ Len(done.s.deck) = 0
       /\ done.s.trumpCard = NoCard
       /\ Cardinality(emptyHanded(done.s)) = 1)
        => /\ done.s.phase = "finished"
           /\ done.s.winner \in emptyHanded(done.s)

\* Witness of C4: a match that the win check has ended.
C4_Witness ==
  \E r \in live :
    LET s == sessions[r]
    IN  /\ s.phase = "finished"
        /\ s.lastAction.text = "won"
        /\ Len(s.players) = 2
        /\ Len(s.hands[s.winner]) = 0
        /\ Len(s.deck) = 0

\* C5: when a player leaves a playing match of two players, the match is
\* finished at once with the remaining player as winner.
C5_DepartureEndsMatch ==
  \A p \in DOMAIN playerRooms :
    LET r == playerRooms[p]
        s == sessions[r]
        done == leaveRoom(registry, p)
    IN  (r \in live /\ s.phase = "playing" /\ Len(s.players) = 2)
          => /\ done.ok
             /\ r \in DOMAIN done.reg.sessions
             /\ done.reg.sessions[r].phase = "finished"
             /\ done.reg.sessions[r].winner = otherPlayer(s.players, p)
             /\ done.reg.sessions[r].players = <<otherPlayer(s.players, p)>>

\* Witness of C5: a match ended by a departure in the middle of a round,
\* won by a player who still holds cards while the deck is not empty.
C5_Witness ==
  \E r \in live :
    LET s == sessions[r]
    IN  /\ s.phase = "finished"
        /\ s.lastAction.text = "opponent left"
        /\ s.table # <<>>
        /\ Len(s.deck) > 0
        /\ Len(s.hands[s.winner]) > 0

\* C6: the phase of a live match only goes waiting -> playing -> finished,
\* and a finished match keeps its phase and its winner.
C6_PhaseOrder ==
  [][\A r \in live \cap DOMAIN sessions' :
       LET before == sessions[r]
           after == sessions'[r]
       IN  /\ \/ after.phase = before.phase
              \/ before.phase = "waiting" /\ after.phase = "playing"
              \/ before.phase = "playing" /\ after.phase = "finished"
           /\ before.phase = "finished"
                => after.phase = "finished" /\ after.winner = before.winner]_vars

\* Witness of C6: a match the win check has finished, which a player has
\* left since: the winner had no cards and is still the winner.
C6_Witness ==
  \E r \in live :
    LET s == sessions[r]
    IN  /\ s.phase = "finished"
        /\ s.lastAction.text = "won"
        /\ Len(s.players) = 1

\* C7: a successful passTurn empties the table, clears the throw-in flag and
\* exchanges attacker and defender.
C7_PassSwapsRoles ==
  \A r \in live, p \in Players :
    LET s == sessions[r]
        done == passTurn(s, p)
    IN  done.ok => /\ done.s.table = <<>>
                   /\ done.s.canThrow = FALSE
                   /\ done.s.attacker = s.defender
                   /\ done.s.defender = s.attacker

\* Witness of C7: a Pass has ended a round in which cards were played, and
\* the refill has drawn from the deck.
C7_Witness ==
  \E r \in live :
    LET s == sessions[r]
    IN  /\ s.phase = "playing"
        /\ s.lastAction.text = "round over"
        /\ Len(s.deck) < DeckSize - 2 * HandSize - 1

\* C8: a successful takeCards keeps attacker and defender, empties the
\* table, and the defender's hand afterwards (refill included) is its hand
\* before plus the cards of the table, all of which it then holds.
C8_TakeKeepsRoles ==
  \A r \in live, p \in Players :
    LET s == sessions[r]
        done == takeCards(s, p)
        onTable == tableCardsOf(s.table)
    IN  done.ok => /\ done.s.attacker = s.attacker
                   /\ done.s.defender = s.defender
                   /\ done.s.table = <<>>
                   /\ Len(done.s.hands[s.defender]) = Len(s.hands[s.defender]) + Len(onTable)
                   /\ \A i \in 1..Len(onTable) : includes(done.s.hands[s.defender], onTable[i])

\* Witness of C8: the defender has taken a table with a defended pair, and
\* the refill after it has drawn from the deck.
C8_Witness ==
  \E r \in live :
    LET s == sessions[r]
    IN  /\ s.lastAction.text = "took the cards"
        /\ Len(s.hands[s.defender]) >= HandSize + 2
        /\ Len(s.deck) < DeckSize - 2 * HandSize - 1

\* The defender's hand size as throwIn computes it.
defenderHandSize(s) ==
  IF s.defender # Null /\ s.defender \in DOMAIN s.hands THEN Len(s.hands[s.defender]) ELSE 0

\* C9: throwIn is rejected, and changes nothing, whenever the defender holds
\* no more cards than there are undefended pairs on the table.
C9_ThrowInCapacity ==
  \A r \in live :
    LET s == sessions[r]
    IN  defenderHandSize(s) <= undefendedCount(s.table)
          => \A p \in DOMAIN s.hands, c \in Cards :
               /\ ~throwIn(s, p, c).ok
               /\ throwIn(s, p, c).s = s

\* Witness of C9: throw-ins are allowed, a player holds a card of a rank on
\* the table, and the defender has no card left: only the capacity rule
\* stands against the throw-in.
C9_Witness ==
  \E r \in live :
    LET s == sessions[r]
    IN  /\ s.phase = "playing"
        /\ s.canThrow
        /\ defenderHandSize(s) = 0
        /\ \E p \in DOMAIN s.hands, c \in Cards :
             /\ includes(s.hands[p], c)
             /\ canThrowIn(c, tableCardsOf(s.table))
             /\ ~throwIn(s, p, c).ok

\* C10: in a playing match there are never more undefended pairs on the
\* table than the defender holds cards.
C10_DefenderCanCover ==
  \A r \in live :
    sessions[r].phase = "playing"
      => undefendedCount(sessions[r].table) <= defenderHandSize(sessions[r])

\* C11: canBeat(attack, defence, trump) is true exactly when (a) the cards
\* share a suit that is not trump and the defence rank is higher, or (b)
\* both are trump and the defence rank is higher, or (c) the defence is
\* trump and the attack is not; it is false in every other case.
C11_CanBeatCases ==
  call.returned # <<>> =>
    LET atk == parseCard(call.args[1])
        def == parseCard(call.args[2])
        trump == call.args[3]
        higher == RANK_VALUES[def.rank] > RANK_VALUES[atk.rank]
    IN  call.returned[1] =
          (\/ atk.suit = def.suit /\ atk.suit # trump /\ higher
           \/ atk.suit = trump /\ def.suit = trump /\ higher
           \/ def.suit = trump /\ atk.suit # trump)

\* Witness of C11: canBeat has returned true for the lowest trump played on
\* an ace of another suit.
C11_Witness ==
  /\ call.returned = <<TRUE>>
  /\ call.args = <<<<"A", "h">>, <<"6", "s">>, "s">>

\* The live matches that list player p.
matchesOf(p) ==
  {r \in live : \E i \in 1..Len(sessions[r].players) : sessions[r].players[i] = p}

\* C12: each player id is in the player list of at most one live match.
C12_OneMatchPerPlayer ==
  \A p \in LobbyPlayers : Cardinality(matchesOf(p)) <= 1

\* Witness of C12: two live matches at once, one of them left by a player
\* who then sits in the other.
C12_Witness ==
  /\ Cardinality(live) = 2
  /\ \E r \in live : sessions[r].lastAction.text = "opponent left"
  /\ \E r \in live : sessions[r].phase = "playing"

\* joinRoom(p, r) is to fail: p is mapped, r is not live, r is full, or r is
\* not waiting.
joinRefused(p, r) ==
  \/ p \in DOMAIN playerRooms
  \/ r \notin live
  \/ Len(sessions[r].players) >= 2
  \/ sessions[r].phase # "waiting"

listed(reg, p, r) ==
  /\ r \in DOMAIN reg.sessions
  /\ includes(reg.sessions[r].players, p)
  /\ p \in DOMAIN reg.playerRooms
  /\ reg.playerRooms[p] = r

\* C13: createRoom(p) fails exactly when p is mapped; joinRoom(p, r) fails
\* exactly when p is mapped, r is not live, r has two players or r is not
\* waiting; a failure leaves the registry as it was, and a success maps p to
\* the match and lists p in it.
C13_CreateJoinRefusals ==
  \A p \in LobbyPlayers :
    /\ \A r \in LobbyRoomIds \ live :
         LET done == createRoom(registry, p, r)
         IN  IF p \in DOMAIN playerRooms
             THEN ~done.ok /\ done.reg = registry
             ELSE done.ok /\ listed(done.reg, p, r)
    /\ \A r \in LobbyRoomIds, seed \in 0..(NumSeeds - 1), coin \in 0..1 :
         LET done == joinRoom(registry, p, r, seed, coin)
         IN  IF joinRefused(p, r)
             THEN ~done.ok /\ done.reg = registry
             ELSE done.ok /\ listed(done.reg, p, r)

\* Witness of C13: a player in no room is refused by a live room that has a
\* single player, because the match in it is over, while a mapped player
\* is refused a new room.
C13_Witness ==
  \E p \in LobbyPlayers, q \in LobbyPlayers, r \in live, fresh \in LobbyRoomIds \ live :
    /\ p \notin DOMAIN playerRooms
    /\ Len(sessions[r].players) = 1
    /\ sessions[r].phase = "finished"
    /\ ~joinRoom(registry, p, r, 0, 0).ok
    /\ q \in DOMAIN playerRooms
    /\ ~createRoom(registry, q, fresh).ok

\* C14: a successful leaveRoom(p) takes p out of the player list of its
\* match and out of the map, deletes that match exactly when no player is
\* left in it and touches no other match; no live match has zero players;
\* leaveRoom(p) for an unmapped p fails and changes nothing.
C14_LeaveReclaims ==
  /\ \A r \in live : Len(sessions[r].players) > 0
  /\ \A p \in LobbyPlayers :
       LET done == leaveRoom(registry, p)
       IN  IF p \notin DOMAIN playerRooms
           THEN ~done.ok /\ done.reg = registry
           ELSE done.ok =>
                  LET r == playerRooms[p]
                      others == without(sessions[r].players, p)
                  IN  /\ p \notin DOMAIN done.reg.playerRooms
                      /\ (r \in DOMAIN done.reg.sessions) = (others # <<>>)
                      /\ r \in DOMAIN done.reg.sessions
                           => done.reg.sessions[r].players = others
                      /\ \A q \in live \ {r} :
                           /\ q \in DOMAIN done.reg.sessions
                           /\ done.reg.sessions[q] = sessions[q]

\* Witness of C14: one match was left by a player and is kept for the
\* player that remains, and another holds a single waiting player whose
\* departure deletes it.
C14_Witness ==
  \E r \in live, q \in live, p \in DOMAIN playerRooms :
    /\ sessions[r].lastAction.text = "opponent left"
    /\ Len(sessions[r].players) = 1
    /\ q # r
    /\ sessions[q].players = <<p>>
    /\ leaveRoom(registry, p).ok
    /\ q \notin DOMAIN leaveRoom(registry, p).reg.sessions

playersOf(s) == {s.players[i] : i \in 1..Len(s.players)}

\* The match s with the cards of every hand but p's replaced, card by card,
\* by one and the same card: all matches that differ from s only in which
\* cards the opponent of p holds have this match in common.
otherHandsBlank(s, p) ==
  [s EXCEPT !.hands = [q \in DOMAIN s.hands |->
                         IF q = p THEN s.hands[q]
                         ELSE [i \in 1..Len(s.hands[q]) |-> generateDeck[1]]]]

\* C15: the view of a player p of a match holds p's own hand unchanged and,
\* for the opponent, as many placeholders as the opponent holds cards; it
\* is the view p has of the match with the opponent's cards replaced, so
\* two matches that differ only in the opponent's cards give p one view.
C15_OpponentHandHidden ==
  \A r \in live :
    LET s == sessions[r]
    IN  \A p \in playersOf(s) :
          LET view == getStateForPlayer(s, p)
          IN  /\ view.hands[p] = s.hands[p]
              /\ \A q \in playersOf(s) \ {p} :
                   view.hands[q] = [i \in 1..Len(s.hands[q]) |-> back]
              /\ view = getStateForPlayer(otherHandsBlank(s, p), p)

\* Witness of C15: in the middle of a round, a player with cards in hand is
\* shown two placeholders for the two cards of its opponent.
C15_Witness ==
  \E r \in live :
    LET s == sessions[r]
    IN  /\ s.phase = "playing"
        /\ s.table # <<>>
        /\ \E p \in playersOf(s), q \in playersOf(s) :
             /\ p # q
             /\ Len(s.hands[p]) > 0
             /\ Len(s.hands[q]) = 2
             /\ s.hands[q] # <<generateDeck[1], generateDeck[1]>>
             /\ getStateForPlayer(s, p).hands[q] = <<back, back>>

\* The match s with every card of the deck replaced by a placeholder.
deckBlank(s) == [s EXCEPT !.deck = [i \in 1..Len(s.deck) |-> back]]

\* C16: the view of a player shows the deck as a count only: matches that
\* differ only in the identities and order of the cards of the deck give
\* the player the same view.
C16_DeckIsCount ==
  \A r \in live :
    LET s == sessions[r]
    IN  \A p \in playersOf(s) :
          getStateForPlayer(s, p) = getStateForPlayer(deckBlank(s), p)

\* C17: right after the second player has joined, each hand holds HandSize
\* cards (6 in the source), the deck holds the rest but one (23), the trump
\* indicator is present and the trump suit is its suit, the table is empty,
\* the throw-in flag is false and the phase is playing.
C17_Deal ==
  \A r \in live :
    LET s == sessions[r]
    IN  Len(s.players) = 2 =>
          /\ \A p \in playersOf(s) : Len(s.hands[p]) = HandSize
          /\ Len(s.deck) = DeckSize - 2 * HandSize - 1
          /\ s.trumpCard # NoCard
          /\ s.trumpCard \in Cards
          /\ s.trumpSuit = parseCard(s.trumpCard).suit
          /\ s.table = <<>>
          /\ s.canThrow = FALSE
          /\ s.phase = "playing"

\* Witness of C17: a match dealt to two players, with a heart as trump
\* indicator.
C17_Witness ==
  \E r \in live :
    /\ Len(sessions[r].players) = 2
    /\ sessions[r].lastAction.text = "game started"
    /\ sessions[r].trumpSuit = "h"
    /\ Len(sessions[r].deck) > 0

\* The rank values of the trumps of a hand.
trumpValues(hand, trumpSuit) ==
  {RANK_VALUES[parseCard(hand[i]).rank] :
     i \in {j \in 1..Len(hand) : parseCard(hand[j]).suit = trumpSuit}}

C19_AddPlayerWaitingOnly ==
  \A r \in live :
    LET s == sessions[r]
    IN  s.phase # "waiting" =>
          \A p \in Players, seed \in 0..(NumSeeds - 1), coin \in 0..1 :
            LET done == addPlayer(s, p, seed, coin)
            IN  ~done.ok /\ done.s = s

openRoomIds == {info.roomId : info \in getOpenRooms(registry)}

\* C21 as stated: the open rooms are the waiting matches with fewer than
\* two players, and these are precisely the live matches with one player.
C21_OpenAreOnePlayer ==
  /\ openRoomIds = {r \in live : sessions[r].phase = "waiting" /\ Len(sessions[r].players) < 2}
  /\ openRoomIds = {r \in live : Len(sessions[r].players) = 1}

\* C21 amended: the open rooms are the waiting matches with fewer than two
\* players; these are precisely the live matches that are waiting, each
\* listed once with its one player; no playing, finished or full match is
\* listed (a finished match left with one player is not).
C21_OpenAreWaiting ==
  /\ openRoomIds = {r \in live : sessions[r].phase = "waiting" /\ Len(sessions[r].players) < 2}
  /\ openRoomIds = {r \in live : sessions[r].phase = "waiting"}
  /\ Cardinality(getOpenRooms(registry)) = Cardinality(openRoomIds)
  /\ \A info \in getOpenRooms(registry) :
       /\ info.playerCount = 1
       /\ Len(sessions[info.roomId].players) = 1
       /\ sessions[info.roomId].phase \notin {"playing", "finished"}

\* Witness of C21: a waiting room, which is listed, next to a finished
\* match left with one player, which is not.
C21_Witness ==
  \E r \in live, q \in live :
    /\ sessions[r].phase = "waiting"
    /\ r \in openRoomIds
    /\ sessions[q].phase = "finished"
    /\ Len(sessions[q].players) = 1
    /\ q \notin openRoomIds

\* C22: attack(p, c) succeeds exactly when the phase is playing, p is the
\* attacker, c is in p's hand and the table is empty; then c has left p's
\* hand, the table is the single pair (c, no defence) and the throw-in flag
\* is false.  An attack on a non-empty table is rejected.
C22_AttackOpensRound ==
  \A r \in live, p \in Players, c \in Cards :
    LET s == sessions[r]
        done == attack(s, p, c)
        legal == /\ s.phase = "playing"
                 /\ p = s.attacker
                 /\ p \in DOMAIN s.hands
                 /\ includes(s.hands[p], c)
                 /\ s.table = <<>>
    IN  /\ done.ok = legal
        /\ s.table # <<>> => ~done.ok
        /\ done.ok =>
              /\ ~includes(done.s.hands[p], c)
              /\ Len(done.s.hands[p]) = Len(s.hands[p]) - 1
              /\ done.s.table = <<[attack |-> c, defense |-> NoCard]>>
              /\ done.s.canThrow = FALSE

\* Witness of C22: an attack has opened a round, and a second attack by the
\* attacker with a card of its hand is rejected.
C22_Witness ==
  \E r \in live :
    LET s == sessions[r]
    IN  /\ s.phase = "playing"
        /\ s.lastAction.text = "attacks"
        /\ Len(s.table) = 1
        /\ \E c \in Cards :
             /\ includes(s.hands[s.attacker], c)
             /\ ~attack(s, s.attacker, c).ok

\* The pairs of the table of s that hold attack card a and no defence.
openPairs(s, a) ==
  {i \in 1..Len(s.table) : s.table[i].attack = a /\ s.table[i].defense = NoCard}

\* C23: every defended pair on a table satisfies canBeat for the trump suit
\* of the match; a defend succeeds only for the current defender, with a
\* card of its hand that beats, on a pair that holds the named attack card
\* undefended, and it moves that card from the hand onto that pair; a
\* defend naming an attack card that is not on the table, or is already
\* defended, is rejected.
C23_DefenceBeats ==
  \A r \in live :
    LET s == sessions[r]
    IN  /\ \A i \in 1..Len(s.table) :
             s.table[i].defense # NoCard
               => canBeat(s.table[i].attack, s.table[i].defense, s.trumpSuit)
        /\ \A p \in Players, a \in Cards, d \in Cards :
             LET done == defend(s, p, a, d)
             IN  /\ openPairs(s, a) = {} => ~done.ok
                 /\ done.ok =>
                       /\ p = s.defender
                       /\ includes(s.hands[p], d)
                       /\ ~includes(done.s.hands[p], d)
                       /\ canBeat(a, d, s.trumpSuit)
                       /\ \E i \in openPairs(s, a) :
                            done.s.table = [s.table EXCEPT ![i].defense = d]

\* Witness of C23: a trump lies on a card of another suit, and the defender
\* holds one more card that beats that attack card, which it may not play
\* on the pair again.
C23_Witness ==
  \E r \in live :
    LET s == sessions[r]
    IN  /\ s.phase = "playing"
        /\ \E i \in 1..Len(s.table), d \in Cards :
             /\ s.table[i].defense # NoCard
             /\ parseCard(s.table[i].defense).suit = s.trumpSuit
             /\ parseCard(s.table[i].attack).suit # s.trumpSuit
             /\ includes(s.hands[s.defender], d)
             /\ canBeat(s.table[i].attack, d, s.trumpSuit)
             /\ ~defend(s, s.defender, s.table[i].attack, d).ok

\* The ranks of the cards of the first n pairs of a table.
ranksOfPairs(table, n) ==
  {parseCard(table[i].attack).rank : i \in 1..n}
    \cup {parseCard(table[i].defense).rank : i \in {j \in 1..n : table[j].defense # NoCard}}

\* C24: the attack card of every table pair but the first has the rank of
\* an attack or defence card of an earlier pair of the table.
C24_ThrownRankOnTable ==
  \A r \in live :
    LET table == sessions[r].table
    IN  \A i \in 2..Len(table) :
          parseCard(table[i].attack).rank \in ranksOfPairs(table, i - 1)

\* Witness of C24: a second pair lies on the table whose attack card has
\* the rank of the first pair's defence card and not of its attack card.
C24_Witness ==
  \E r \in live :
    LET table == sessions[r].table
    IN  /\ Len(table) >= 2
        /\ parseCard(table[2].attack).rank = parseCard(table[1].defense).rank
        /\ parseCard(table[2].attack).rank # parseCard(table[1].attack).rank

\* C25: a throwIn by the current defender is rejected: only the attacker
\* adds attack cards to the table.
C25_DefenderCannotThrowIn ==
  \A r \in live :
    LET s == sessions[r]
    IN  s.phase = "playing" =>
          \A c \in Cards : ~throwIn(s, s.defender, c).ok

\* C26: in a playing match the throw-in flag is true exactly when the table
\* is not empty and every pair on it is defended.  A successful defend
\* leaves it true exactly when it completes the defence; it is false after
\* every successful attack, throwIn, passTurn and takeCards; and a throwIn
\* succeeds only while it is true.
C26_ThrowFlag ==
  \A r \in live :
    LET s == sessions[r]
    IN  s.phase = "playing" =>
          /\ s.canThrow = (s.table # <<>> /\ allDefended(s.table))
          /\ \A p \in Players :
               /\ passTurn(s, p).ok => ~passTurn(s, p).s.canThrow
               /\ takeCards(s, p).ok => ~takeCards(s, p).s.canThrow
               /\ \A c \in Cards :
                    /\ attack(s, p, c).ok => ~attack(s, p, c).s.canThrow
                    /\ throwIn(s, p, c).ok => s.canThrow /\ ~throwIn(s, p, c).s.canThrow
                    /\ \A d \in Cards :
                         LET done == defend(s, p, c, d)
                         IN  done.ok =>
                               /\ ~s.canThrow
                               /\ done.s.canThrow = allDefended(done.s.table)

\* Witness of C26: the defender has beaten the second pair of the table and
\* the throw-in flag is true again.
C26_Witness ==
  \E r \in live :
    LET s == sessions[r]
    IN  /\ s.phase = "playing"
        /\ s.canThrow
        /\ Len(s.table) = 2
        /\ s.lastAction.text = "defends"

\* The number of cards player q holds when the refill of a Pass
\* (take = FALSE) or of a Take (take = TRUE) on match s begins.
heldAtRefill(s, q, take) ==
  Len(s.hands[q]) + (IF take /\ q = s.defender THEN Len(tableCardsOf(s.table)) ELSE 0)

\* C27: after a successful passTurn or takeCards the deck is empty or both
\* players hold at least HandSize cards (6 in the source), and a player who
\* held that many when the refill began has drawn nothing.
C27_RefillFillsHands ==
  \A r \in live, p \in Players, take \in BOOLEAN :
    LET s == sessions[r]
        done == IF take THEN takeCards(s, p) ELSE passTurn(s, p)
    IN  done.ok =>
          /\ \/ Len(done.s.deck) = 0
             \/ \A q \in playersOf(s) : Len(done.s.hands[q]) >= HandSize
          /\ \A q \in playersOf(s) :
               heldAtRefill(s, q, take) >= HandSize
                 => Len(done.s.hands[q]) = heldAtRefill(s, q, take)

\* Witness of C27: after a Take the defender holds more than a full hand,
\* the attacker has drawn up to a full hand, and the deck is not empty.
C27_Witness ==
  \E r \in live :
    LET s == sessions[r]
    IN  /\ s.phase = "playing"
        /\ s.lastAction.text = "took the cards"
        /\ Len(s.deck) > 0
        /\ Len(s.deck) < DeckSize - 2 * HandSize - 1
        /\ Len(s.hands[s.defender]) > HandSize
        /\ Len(s.hands[s.attacker]) = HandSize

\* What a player who holds n cards draws from a deck of k cards.
drawn(n, k) ==
  LET need == IF n < HandSize THEN HandSize - n ELSE 0
  IN  IF need < k THEN need ELSE k

\* C28: in the refill of a Pass or Take the attacker of the round that ends
\* draws first, from the whole deck, and the defender of that round from
\* what is left: the defender draws only if the attacker then holds a full
\* hand, and an attacker left short of a full hand has emptied the deck.
C28_AttackerDrawsFirst ==
  \A r \in live, p \in Players, take \in BOOLEAN :
    LET s == sessions[r]
        done == IF take THEN takeCards(s, p) ELSE passTurn(s, p)
        byAttacker == Len(done.s.hands[s.attacker]) - heldAtRefill(s, s.attacker, take)
        byDefender == Len(done.s.hands[s.defender]) - heldAtRefill(s, s.defender, take)
    IN  done.ok =>
          /\ byAttacker = drawn(heldAtRefill(s, s.attacker, take), Len(s.deck))
          /\ byDefender = drawn(heldAtRefill(s, s.defender, take), Len(s.deck) - byAttacker)
          /\ byDefender > 0 => Len(done.s.hands[s.attacker]) >= HandSize
          /\ Len(done.s.hands[s.attacker]) < HandSize
                => byDefender = 0 /\ Len(done.s.deck) = 0

\* Witness of C28: both players are short of a full hand, the deck cannot
\* fill both, and the attacker passes: the attacker's hand is filled and
\* the defender's is not.
C28_Witness ==
  \E r \in live :
    LET s == sessions[r]
        done == passTurn(s, s.attacker)
    IN  /\ s.phase = "playing"
        /\ Len(s.hands[s.attacker]) < HandSize
        /\ Len(s.hands[s.defender]) < HandSize
        /\ Len(s.deck) > 0
        /\ done.ok
        /\ Len(done.s.hands[s.attacker]) = HandSize
        /\ Len(done.s.hands[s.defender]) < HandSize
        /\ Len(done.s.deck) = 0

asSet(seq) == {seq[i] : i \in 1..Len(seq)}

\* The cards of the deck, the hands and the table of s.
dealtOrDealable(s) == asSet(s.deck) \cup asSet(handCards(s.hands, s.players))
                        \cup asSet(tableCardsOf(s.table))

\* C29: the trump indicator is in no hand, not on the table and not in the
\* deck; no move brings a card into the deck, the hands or the table that
\* was not there; once a match is dealt the indicator is present exactly
\* while the deck is not empty; a Pass or Take keeps it while cards remain
\* in the deck and removes it when the refill empties the deck.
C29_TrumpIndicatorAside ==
  \A r \in live :
    LET s == sessions[r]
        before == dealtOrDealable(s)
        kept(done) == done.ok => dealtOrDealable(done.s) \subseteq before
    IN  /\ s.trumpCard # NoCard
             => /\ s.trumpCard \notin dealtOrDealable(s)
                /\ parseCard(s.trumpCard).suit = s.trumpSuit
        /\ s.phase # "waiting" => (s.trumpCard # NoCard) = (Len(s.deck) > 0)
        /\ \A p \in Players :
             /\ \A done \in {passTurn(s, p), takeCards(s, p)} :
                  done.ok =>
                    /\ kept(done)
                    /\ done.s.trumpCard = IF Len(done.s.deck) > 0 THEN s.trumpCard ELSE NoCard
             /\ \A c \in Cards :
                  /\ kept(attack(s, p, c))
                  /\ kept(throwIn(s, p, c))
                  /\ \A d \in Cards : kept(defend(s, p, c, d))

\* Witness of C29: a match is being played after a refill has emptied the
\* deck: the trump indicator is gone and the trump suit remains.
C29_Witness ==
  \E r \in live :
    LET s == sessions[r]
    IN  /\ s.phase = "playing"
        /\ s.lastAction.text \in {"round over", "took the cards"}
        /\ Len(s.deck) = 0
        /\ s.trumpCard = NoCard
        /\ s.trumpSuit # Null

\* C30 speaks of a Pass that leaves the deck empty and both hands empty.
\* No such state is reachable: the deal sets one card aside, cards leave the
\* deck, the hands and the table only as defended pairs, so a match being
\* played holds an odd number of cards there, and with the deck and the
\* table empty the two hands never hold the same number of cards.
C30_OddCardsInPlay ==
  \A r \in live :
    LET s == sessions[r]
        held == Len(s.deck) + Len(handCards(s.hands, s.players))
                  + Len(tableCardsOf(s.table))
    IN  s.phase = "playing"
          => /\ held % 2 = 1
             /\ Len(s.deck) = 0 /\ s.table = <<>>
                  => Len(s.hands[s.attacker]) # Len(s.hands[s.defender])

\* C31: no move of GameSession ends in an exception, whoever the player id
\* names (one of the two players or a stranger to the match), and a move
\* that fails leaves the match as it was.
C31_MovesNeverThrow ==
  \A r \in live, p \in LobbyPlayers, c \in Cards :
    LET s == sessions[r]
        quiet(done) == ~done.threw /\ (~done.ok => done.s = s)
    IN  /\ quiet(attack(s, p, c))
        /\ quiet(throwIn(s, p, c))
        /\ quiet(passTurn(s, p))
        /\ quiet(takeCards(s, p))
        /\ \A d \in Cards : quiet(defend(s, p, c, d))

\* C32: sortHand returns a permutation of the hand in which the non-trump
\* cards come before the trump cards, the non-trump cards are grouped by
\* suit in the order c, d, h, s, and within a suit the ranks ascend; sorting
\* the result again returns it unchanged.
C32_SortHandOrder ==
  (call.fn = "sortHand" /\ call.returned # <<>>) =>
    LET hand == call.args[1]
        trumpSuit == call.args[2]
        out == call.returned[1]
        suitOf(i) == parseCard(out[i]).suit
        valueOf(i) == RANK_VALUES[parseCard(out[i]).rank]
        isTrump(i) == suitOf(i) = trumpSuit
    IN  /\ Len(out) = Len(hand)
        /\ asSet(out) = asSet(hand)
        /\ \A i, j \in 1..Len(out) :
             i < j =>
               /\ isTrump(i) => isTrump(j)
               /\ ~isTrump(j)
                    => SUIT_ORDER[suitOf(i)] <= SUIT_ORDER[suitOf(j)]
               /\ suitOf(i) = suitOf(j) => valueOf(i) < valueOf(j)
        /\ sortHand(out, trumpSuit) = out

\* Witness of C32: 7s, 6h, 6c under trump c comes back as 6h, 7s, 6c.
C32_Witness ==
  /\ call.fn = "sortHand"
  /\ call.args = <<(<<(<<"7", "s">>), (<<"6", "h">>), (<<"6", "c">>)>>), "c">>
  /\ call.returned = <<(<<(<<"6", "h">>), (<<"7", "s">>), (<<"6", "c">>)>>)>>

\* C33: the player-to-match map and the player lists agree: p is mapped to r
\* exactly when r is a live match with p in its player list; so a mapped
\* player's match is found and holds the player, and leaveRoom by a mapped
\* player succeeds.
C33_MapAgreesWithLists ==
  /\ \A p \in LobbyPlayers, r \in LobbyRoomIds :
       (p \in DOMAIN playerRooms /\ playerRooms[p] = r)
         <=> (r \in live /\ includes(sessions[r].players, p))
  /\ \A p \in LobbyPlayers :
       LET found == getSessionByPlayer(registry, p)
       IN  /\ found # Null => includes(sessions[found].players, p)
           /\ p \in DOMAIN playerRooms
                => /\ found = playerRooms[p]
                   /\ leaveRoom(registry, p).ok

\* Witness of C33: two live matches, one finished and still holding the
\* player who stayed, one with another player; the third player has left
\* and is mapped to nothing.
C33_Witness ==
  \E r \in live, q \in live, p \in DOMAIN playerRooms, o \in LobbyPlayers :
    /\ r # q
    /\ sessions[r].phase = "finished"
    /\ sessions[r].players = <<p>>
    /\ getSessionByPlayer(registry, p) = r
    /\ o \notin DOMAIN playerRooms
    /\ Len(sessions[q].players) = 1
    /\ playerRooms[sessions[q].players[1]] = q

\* C34: the table has at most one pair without a defence card, and such a
\* pair is the last pair on the table.
C34_OneOpenPairLast ==
  \A r \in live :
    LET table == sessions[r].table
    IN  /\ undefendedCount(table) <= 1
        /\ \A i \in 1..Len(table) : table[i].defense = NoCard => i = Len(table)

\* Witness of C34: a card thrown in lies undefended behind a defended pair.
C34_Witness ==
  \E r \in live :
    LET table == sessions[r].table
    IN  /\ Len(table) = 2
        /\ table[1].defense # NoCard
        /\ table[2].defense = NoCard
        /\ sessions[r].lastAction.text = "throws in"

\* C35: the winner is set exactly when the phase is finished, and it is one
\* of the two players the match was dealt to (its attacker or its
\* defender); in the phases waiting and playing there is no winner.
C35_WinnerIffFinished ==
  \A r \in live :
    LET s == sessions[r]
    IN  /\ (s.winner # Null) <=> (s.phase = "finished")
        /\ s.phase \in {"waiting", "playing"} => s.winner = Null
        /\ s.phase = "finished"
             => /\ s.winner \in {s.attacker, s.defender}
                /\ s.winner \in Players
                /\ s.attacker # s.defender

\* Witness of C35: a match that the win check has ended, its winner still
\* seated with an empty hand.
C35_Witness ==
  \E r \in live :
    LET s == sessions[r]
    IN  /\ s.phase = "finished"
        /\ s.lastAction.text = "won"
        /\ s.winner \in playersOf(s)
        /\ s.hands[s.winner] = <<>>

\* C36: a move that ends a match that is being played is a passTurn or a
\* takeCards; after it the deck is empty, the winner's hand is empty and
\* the other player's hand is not.  attack, defend and throwIn never end
\* the match, even when they empty the actor's hand with the deck exhausted.
C36_OnlyRoundEndFinishes ==
  \A r \in live :
    LET s == sessions[r]
        goesOn(done) == done.s.phase = "playing"
        wonFairly(done) ==
          done.s.phase = "finished" =>
            /\ done.ok
            /\ Len(done.s.deck) = 0
            /\ done.s.winner \in playersOf(s)
            /\ done.s.hands[done.s.winner] = <<>>
            /\ done.s.hands[otherPlayer(s.players, done.s.winner)] # <<>>
    IN  s.phase = "playing" =>
          \A p \in Players :
            /\ wonFairly(passTurn(s, p))
            /\ wonFairly(takeCards(s, p))
            /\ \A c \in Cards :
                 /\ goesOn(attack(s, p, c))
                 /\ goesOn(throwIn(s, p, c))
                 /\ \A d \in Cards : goesOn(defend(s, p, c, d))

\* Witness of C36: the attacker has played the last card of the hand with
\* the deck exhausted and the match goes on; it ends, won by the attacker,
\* when the defender takes the card.
C36_Witness ==
  \E r \in live :
    LET s == sessions[r]
    IN  /\ s.phase = "playing"
        /\ s.lastAction.text = "attacks"
        /\ Len(s.deck) = 0
        /\ s.hands[s.attacker] = <<>>
        /\ takeCards(s, s.defender).s.phase = "finished"
        /\ takeCards(s, s.defender).s.winner = s.attacker

\* C37: in a match that is being played, passTurn by the attacker is
\* accepted exactly when no pair on the table lacks a defence, the empty
\* table included.  An accepted pass empties the table, draws hands short
\* of HandSize up from the deck, exchanges attacker and defender, and ends
\* the match exactly when the deck is then empty and one hand is empty
\* while the other is not.
C37_PassOnDefendedTable ==
  \A r \in live :
    LET s == sessions[r]
        done == passTurn(s, s.attacker)
        out(p) == Len(done.s.hands[p]) = 0
    IN  s.phase = "playing" =>
          /\ done.ok <=> undefendedCount(s.table) = 0
          /\ s.table = <<>> => done.ok
          /\ done.ok =>
                /\ done.s.table = <<>>
                /\ done.s.attacker = s.defender
                /\ done.s.defender = s.attacker
                /\ \A p \in playersOf(s) :
                     Len(done.s.hands[p]) >= Len(s.hands[p])
                /\ Len(done.s.deck) > 0
                     => \A p \in playersOf(s) : Len(done.s.hands[p]) >= HandSize
                /\ done.s.phase = "finished"
                     <=> /\ Len(done.s.deck) = 0
                         /\ out(s.attacker) # out(s.defender)

\* Witness of C37: a round was passed without a card being played: the
\* deck and the hands are as the deal left them and the first attacker now
\* defends.
C37_Witness ==
  \E r \in live :
    LET s == sessions[r]
    IN  /\ s.phase = "playing"
        /\ s.lastAction.text = "round over"
        /\ Len(s.deck) = DeckSize - 2 * HandSize - 1
        /\ \A p \in playersOf(s) : Len(s.hands[p]) = HandSize
        /\ s.table = <<>>
        /\ passTurn(s, s.attacker).ok

\* C38: in a match that is being played the attacker and the defender are
\* both set, are different players, and together are the two players of
\* the match.
C38_RolesAreThePlayers ==
  \A r \in live :
    LET s == sessions[r]
    IN  s.phase = "playing" =>
          /\ s.attacker # Null
          /\ s.defender # Null
          /\ s.attacker # s.defender
          /\ Len(s.players) = 2
          /\ {s.attacker, s.defender} = playersOf(s)

\* Witness of C38: a round has been passed and the player who joined
\* second now attacks the one who created the room.
C38_Witness ==
  \E r \in live :
    LET s == sessions[r]
    IN  /\ s.phase = "playing"
        /\ s.lastAction.text = "round over"
        /\ s.attacker = s.players[2]
        /\ s.defender = s.players[1]

\* C39: for all cards a, b of the 36-card deck and every trump suit,
\* canBeat(a, b, trump) and canBeat(b, a, trump) are not both true, and
\* canBeat(a, a, trump) is false.
C39_BeatIsAsymmetric ==
  (call.fn = "canBeat" /\ call.returned # <<>>) =>
    LET a == call.args[1]
        b == call.args[2]
        trump == call.args[3]
    IN  /\ call.returned[1] => ~canBeat(b, a, trump)
        /\ a = b => call.returned[1] = FALSE

\* Witness of C39: the nine of hearts beats the seven of hearts under trump
\* spades, and the seven does not beat the nine.
C39_Witness ==
  /\ call.fn = "canBeat"
  /\ call.args = <<(<<"7", "h">>), (<<"9", "h">>), "s">>
  /\ call.returned = <<TRUE>>
  /\ ~canBeat(call.args[2], call.args[1], call.args[3])

\* The open sockets whose last message carried the id of player p.
openSocketsOf(p) ==
  {ws \in WsSockets : sockets[ws] = "open" /\ ws \in DOMAIN playerIds /\ playerIds[ws] = p}

\* C40: a disconnect timeout never takes a player out of a match while the
\* player has an open socket on which the player has sent a message.
C40_TimeoutSparesConnected ==
  \A p \in Players :
    (timers[p] > 0 /\ openSocketsOf(p) # {})
      => ~disconnectTimeout(registry, connections, p).ok

====
